---- MODULE Spec2Model ----
(***************************************************************************)
(* Model of the download orchestration of bitget-history:                  *)
(*   Downloader.DownloadFiles / downloadWithProxy / CheckZipFile           *)
(*   (internal/downloader), cmdutils.GenerateURLs and the enumerate ->     *)
(*   download cycle of main.                                               *)
(*                                                                         *)
(* One download task (goroutine) exists per listed resource; a task is     *)
(* identified with the resource it downloads.  The bad-proxy map is read   *)
(* and written by the tasks without any lock, the failed list is appended  *)
(* under the mutex mu.                                                     *)
(***************************************************************************)
EXTENDS Naturals, Integers, FiniteSets, Sequences, TLC

\* ---- bounds ------------------------------------------------------------
NRes == 2          \* resources (candidate archives) of a run
NProxies == 2      \* proxies that may appear in the working-set file
MaxCycles == 2     \* enumerate -> download cycles of a run
MaxFaults == 5     \* failed download attempts of one call of DownloadFiles
MaxRunFaults == 2  \* failed download attempts of a run of several cycles
NGroups == 2       \* resource groups of a load stage (trades: SPBL, UMCBL)
NKeys == 2         \* trade ids, and timestamps, that occur in archives
MaxRows == 2       \* records of one archive
MaxZips == 2       \* archives of one group
MaxPasses == 2     \* load passes into one database

\* ---- program constants -------------------------------------------------
maxRetries == 5    \* NewDownloader: maxRetries: 5
BatchSize == 10    \* GenerateURLs: startNum += 10
LastNum == 999     \* GenerateURLs: startNum <= 999

Res == 1..NRes
Proxies == 1..NProxies

\* What the file at a resource's local output path looks like.
\*   none    : no file           empty   : zero bytes
\*   partial : a body cut short  corrupt : a full-size body, not a Zip
\*   zip     : a well-formed Zip archive
FileKinds == {"none", "empty", "partial", "corrupt", "zip"}

\* stat.Size() of a file of the kind (a full body has 2 bytes, a partial 1)
SizeOf(k) == CASE k = "empty" -> 0
               [] k = "partial" -> 1
               [] k = "corrupt" -> 2
               [] k = "zip" -> 2
               [] OTHER -> 0

\* FileInfo.ContentLength of a listed resource: 0 (unknown) or the full size
Hints == {0, 2}

VARIABLES
  files,        \* DownloadFiles' argument: listed resource |-> ContentLength
  fs,           \* local output path of a resource |-> kind of file there
  workingFile,  \* the persisted working-set file: [exists, lines]
  badProxies,   \* DownloadFiles' local map badProxies
  failedURLs,   \* DownloadFiles' local slice, as resource |-> occurrences
  errChan,      \* the buffered channel, as sender |-> values sent
  mu,           \* holder of the mutex mu of the running function (0: free)
  pc,           \* position of each download task
  attempt,      \* loop variable of the retry loop of each task
  avail,        \* availableProxies of a task between filtering and selection
  proxyURL,     \* proxy of the attempt of a task that is about to mark it
  lastBody,     \* what the last attempt of a task received as a body
  why,          \* why a task appends its resource to failedURLs
  outcome,      \* how the task of a resource ended
  gets,         \* GET requests issued for a resource in the current call
  connFailed,   \* proxies through which an attempt failed on connection level
  pickedBad,    \* a selection chose a proxy that was in badProxies by then
  mainPc,       \* position of the caller of DownloadFiles
  result,       \* what DownloadFiles returned
  crashed,      \* the runtime aborted the process (concurrent map access)
  dataType,     \* --type: "trades" or "depth"
  skipIfExists, \* --skip-exists
  cycle,        \* number of the current enumerate -> download cycle
  urls,         \* GenerateURLs' local slice: resource |-> ContentLength
  probePc,      \* position of the probe goroutine of each resource
  tail,         \* the probes of the batch beyond the last resource: how they ended
  stopBatch,    \* GenerateURLs' local stopBatch of the current batch
  startNum,     \* GenerateURLs' loop variable startNum
  checkedUrls,  \* table checked_urls: resource |-> [status, len]
  remote,       \* what the origin answers for a resource
  probed,       \* what the probe goroutine of a resource found out
  repeatFlag,   \* --repeat, after main cleared it without --skip-exists
  faultsLeft,   \* failed download attempts the network may still cause
  kept,         \* resources whose archive was on disk when the cycle began
  live,         \* the database file at dbPath of each group
  backup,       \* the file at dbPath + BackupSuffix of each group
  temp,         \* the database file at TempDbPath of each group
  loadPc,       \* position of main in its load stage
  group,        \* the group main is loading
  zipDir,       \* the archives main found on disk for each group
  zipFiles,     \* ProcessZipFiles: the archives not yet processed
  loadErr,      \* which of ProcessZipFiles and Close returned an error
  liveBefore,   \* the file at dbPath of each group when the pass began
  moved,        \* groups for which MoveTempDatabase returned nil
  pass,         \* number of the load pass
  rawFile,      \* the raw candidates file: [exists, lines]
  echo,         \* what the echo request through each candidate gives
  pmPc,         \* position of the caller in EnsureProxies / GetProxies
  chkPc,        \* checkProxies: state of the goroutine of each candidate
  results,      \* checkProxies: candidates in the results channel
  workingProxies, \* checkProxies: the slice the collector appends to
  pmWorking,    \* EnsureProxies: the slice checkProxies returned
  pmErr,        \* the error EnsureProxies returned ("nil" for none)
  got,          \* the list GetProxies returned
  getErr,       \* whether GetProxies returned an error
  ctx           \* the context of DownloadFiles: [done, inFlight]

genVars == <<dataType, skipIfExists, cycle, urls, probePc, tail, stopBatch,
             startNum, checkedUrls, remote, probed, repeatFlag>>

loadVars == <<live, backup, temp, loadPc, group, zipDir, zipFiles, loadErr,
              liveBefore, moved, pass>>

pmVars == <<rawFile, echo, pmPc, chkPc, results, workingProxies, pmWorking,
            pmErr, got, getErr>>

extVars == <<loadVars, pmVars, ctx>>

\* the variables of enumeration and download, but the working-set file
runVars == <<files, fs, badProxies, failedURLs, errChan, mu, pc,
             attempt, avail, proxyURL, lastBody, why, outcome, gets,
             connFailed, pickedBad, mainPc, result, crashed, genVars,
             faultsLeft, kept>>

vars == <<runVars, workingFile, extVars>>

Listed == DOMAIN files

\* ---- internal/db: tables and archives ----------------------------------
Groups == 1..NGroups
Keys == 1..NKeys
Pays == {"a", "b"}

\* a stored row: its trade_id (trades) or its timestamp (depth), and the
\* other columns
Rows == Keys \X Pays

\* a record of a CSV file: a row, or a record the loader skips (an empty
\* trade_id, a timestamp that does not parse): key 0
Records == Rows \cup {<<0, "a">>}

\* the records of the CSV file of an archive, and the sorted list of the
\* archives of a group
Archives == UNION {[1..n -> Records] : n \in 1..MaxRows}
ZipLists == UNION {[1..n -> Archives] : n \in 0..MaxZips}

\* a table: how many rows it holds with the given columns
EmptyTable == [r \in Rows |-> 0]

HasKey(t, k) == \E r \in Rows : r[1] = k /\ t[r] > 0

\* INSERT INTO "1" (timestamp, ...): the key of the table is the
\* AUTOINCREMENT id, so the row is always added
Insert(t, r) == [t EXCEPT ![r] = @ + 1]

\* variant: the table has no key on trade_id
InsertOrIgnore_NoKey(t, r) == Insert(t, r)

\* INSERT OR IGNORE INTO trades: trade_id is the PRIMARY KEY, a row with a
\* trade_id the table has already is ignored
InsertOrIgnore(t, r) == IF HasKey(t, r[1]) THEN t ELSE [t EXCEPT ![r] = 1]

\* the loop over the records of a CSV file and the commit
RECURSIVE processTradesCSV(_, _)
processTradesCSV(t, recs) ==
  IF recs = <<>> THEN t
  ELSE processTradesCSV(IF Head(recs) \in Rows
                        THEN InsertOrIgnore(t, Head(recs)) ELSE t,
                        Tail(recs))

RECURSIVE processDepthCSV(_, _)
processDepthCSV(t, recs) ==
  IF recs = <<>> THEN t
  ELSE processDepthCSV(IF Head(recs) \in Rows
                       THEN Insert(t, Head(recs)) ELSE t,
                       Tail(recs))

processCSV(t, recs) == IF dataType = "depth" THEN processDepthCSV(t, recs)
                       ELSE processTradesCSV(t, recs)

\* ---- database files -------------------------------------------------------
\* no file; a file that holds a database with the table; a file that was
\* created or truncated and has not (yet) received a whole database
NoFile == [exists |-> FALSE, whole |-> FALSE, tbl |-> EmptyTable]
DbOf(t) == [exists |-> TRUE, whole |-> TRUE, tbl |-> t]
Truncated == [exists |-> TRUE, whole |-> FALSE, tbl |-> EmptyTable]

otherThanLoad == <<runVars, workingFile, pmVars, ctx>>

LoadIdle == /\ live = [g \in Groups |-> NoFile]
            /\ backup = [g \in Groups |-> NoFile]
            /\ temp = [g \in Groups |-> NoFile]
            /\ loadPc = "idle"
            /\ group = 1
            /\ zipDir = [g \in Groups |-> <<>>]
            /\ zipFiles = <<>>
            /\ loadErr = {}
            /\ liveBefore = [g \in Groups |-> NoFile]
            /\ moved = {}
            /\ pass = 1

\* ---- ProxyManager: before any call ---------------------------------------
EchoKinds == {"own", "other", "error"}

ProxyIdle == /\ rawFile = [exists |-> FALSE, lines |-> {}]
             /\ echo = [p \in Proxies |-> "own"]
             /\ pmPc = "idle"
             /\ chkPc = [p \in Proxies |-> "idle"]
             /\ results = {}
             /\ workingProxies = <<>>
             /\ pmWorking = <<>>
             /\ pmErr = "nil"
             /\ got = {}
             /\ getErr = FALSE

\* ---- ProxyManager.GetProxies / loadProxies -----------------------------
\* variant: an empty file is an error too
GetProxiesErr_OrEmpty == ~workingFile.exists \/ workingFile.lines = {}

\* an error when the file cannot be opened, otherwise the lines of the file
GetProxiesErr == ~workingFile.exists
GetProxies == workingFile.lines

\* ---- CheckZipFile ------------------------------------------------------
\* nil (TRUE) for an empty file and for a file zip.OpenReader accepts
CheckZipFile(k) == \/ SizeOf(k) = 0
                   \/ k = "zip"

\* ---- downloadWithProxy -------------------------------------------------
\* What one call can meet.
\*   refused     : client.Do fails, "... connect: connection refused"
\*   timeout     : client.Do fails, "... i/o timeout"
\*   deadline    : client.Do fails after the 60 s of http.Client.Timeout,
\*                 "context deadline exceeded (Client.Timeout exceeded ...)"
\*   neterr      : client.Do fails otherwise (EOF, connection reset, ...)
\*   status      : a response other than 200
\*   fserr       : MkdirAll or Create fails
\*   copyerr     : io.Copy fails after part of the body was written
\*   copytimeout : io.Copy fails with "... i/o timeout", likewise
\*   garbage, emptybody, zipbody : the whole body was written
Outcomes == {"refused", "timeout", "deadline", "neterr", "status", "fserr",
             "copyerr", "copytimeout", "garbage", "emptybody", "zipbody"}

Bodies == {"garbage", "emptybody", "zipbody"}

\* the file the body of a complete response leaves on disk
Written(o) == CASE o = "garbage" -> "corrupt"
                [] o = "emptybody" -> "empty"
                [] OTHER -> "zip"

\* the file at the output path after the call, given the file before it:
\* os.Remove follows a failed CheckZipFile only
FileAfter(o, before) ==
  CASE o \in {"refused", "timeout", "deadline", "neterr", "status", "fserr"}
         -> before
    [] o \in {"copyerr", "copytimeout"} -> "partial"
    [] OTHER -> IF CheckZipFile(Written(o)) THEN Written(o) ELSE "none"

\* the call returns nil
DownloadOk(o) == /\ o \in Bodies
                 /\ CheckZipFile(Written(o))

\* the marks of err.Error() the retry loop looks for
ErrText(o) == CASE o = "refused" -> {"connection refused"}
                [] o \in {"timeout", "copytimeout"} -> {"timeout"}
                [] o = "deadline" -> {"Client.Timeout"}
                [] OTHER -> {}

\* the attempt failed on the level of the connection: refused or timed out
ConnError(o) == o \in {"refused", "timeout", "deadline", "copytimeout"}

\* variant: every failed attempt marks its proxy
MarksBad_Any(o) == o \notin {"zipbody", "emptybody"}

\* strings.Contains(err.Error(), "connection refused") ||
\* strings.Contains(err.Error(), "timeout")
MarksBad(o) == \/ "connection refused" \in ErrText(o)
               \/ "timeout" \in ErrText(o)

\* ---- DownloadFiles -----------------------------------------------------
ZeroBag == [r \in Res |-> 0]

BagTotal(b) ==
  LET RECURSIVE Sum(_)
      Sum(S) == IF S = {} THEN 0
                ELSE LET x == CHOOSE y \in S : TRUE IN b[x] + Sum(S \ {x})
  IN Sum(DOMAIN b)

\* entry of DownloadFiles: fresh locals, one goroutine per listed file
DownloadFilesBegin ==
  /\ mainPc = "call" /\ ~crashed
  /\ mainPc' = "wait"
  /\ badProxies' = {}
  /\ failedURLs' = ZeroBag
  /\ errChan' = ZeroBag
  /\ mu' = 0
  /\ pc' = [r \in Res |-> IF r \in Listed THEN "start" ELSE "idle"]
  /\ attempt' = [r \in Res |-> 1]
  /\ avail' = [r \in Res |-> {}]
  /\ proxyURL' = [r \in Res |-> 0]
  /\ lastBody' = [r \in Res |-> "none"]
  /\ why' = [r \in Res |-> "none"]
  /\ outcome' = [r \in Res |-> "none"]
  /\ gets' = [r \in Res |-> 0]
  /\ connFailed' = {}
  /\ result' = "none"
  /\ UNCHANGED genVars
  /\ UNCHANGED <<files, fs, workingFile, pickedBad, crashed>>
  /\ UNCHANGED <<faultsLeft, kept>>
  /\ UNCHANGED extVars

\* variant: the sizes are compared the wrong way
SkipCheck_Larger(t) ==
  /\ pc[t] = "start" /\ ~crashed
  /\ IF files[t] > 0 /\ fs[t] # "none" /\ SizeOf(fs[t]) > files[t]
     THEN /\ pc' = [pc EXCEPT ![t] = "done"]
          /\ outcome' = [outcome EXCEPT ![t] = "skipped"]
     ELSE /\ pc' = [pc EXCEPT ![t] = "filter"]
          /\ UNCHANGED outcome
  /\ UNCHANGED genVars
  /\ UNCHANGED <<files, fs, workingFile, badProxies, failedURLs, errChan, mu,
                 attempt, avail, proxyURL, lastBody, why, gets, connFailed,
                 pickedBad, mainPc, result, crashed>>
  /\ UNCHANGED <<faultsLeft, kept>>
  /\ UNCHANGED extVars

\* the size check before the retry loop
SkipCheck(t) ==
  /\ pc[t] = "start" /\ ~crashed
  /\ IF files[t] > 0 /\ fs[t] # "none" /\ SizeOf(fs[t]) = files[t]
     THEN /\ pc' = [pc EXCEPT ![t] = "done"]
          /\ outcome' = [outcome EXCEPT ![t] = "skipped"]
     ELSE /\ pc' = [pc EXCEPT ![t] = "filter"]
          /\ UNCHANGED outcome
  /\ UNCHANGED genVars
  /\ UNCHANGED <<files, fs, workingFile, badProxies, failedURLs, errChan, mu,
                 attempt, avail, proxyURL, lastBody, why, gets, connFailed,
                 pickedBad, mainPc, result, crashed>>
  /\ UNCHANGED <<faultsLeft, kept>>
  /\ UNCHANGED extVars

\* top of the retry loop: GetProxies, then the filter over badProxies
FilterProxies(t) ==
  /\ pc[t] = "filter" /\ ~crashed
  /\ lastBody' = [lastBody EXCEPT ![t] = "none"]
  /\ IF GetProxiesErr \/ GetProxies = {}
     THEN /\ BagTotal(errChan) < Cardinality(Listed)
          /\ errChan' = [errChan EXCEPT ![t] = @ + 1]
          /\ pc' = [pc EXCEPT ![t] = "done"]
          /\ outcome' = [outcome EXCEPT ![t] = "noproxies"]
          /\ UNCHANGED <<avail, why>>
     ELSE /\ IF GetProxies \ badProxies = {}
             THEN /\ pc' = [pc EXCEPT ![t] = "lock"]
                  /\ why' = [why EXCEPT ![t] = "allbad"]
                  /\ UNCHANGED avail
             ELSE /\ pc' = [pc EXCEPT ![t] = "select"]
                  /\ avail' = [avail EXCEPT ![t] = GetProxies \ badProxies]
                  /\ UNCHANGED why
          /\ UNCHANGED <<errChan, outcome>>
  /\ UNCHANGED genVars
  /\ UNCHANGED <<files, fs, workingFile, badProxies, failedURLs, mu, attempt,
                 proxyURL, gets, connFailed, pickedBad, mainPc, result,
                 crashed>>
  /\ UNCHANGED <<faultsLeft, kept>>
  /\ UNCHANGED extVars

\* variant: the loop test is off by one
NextPc_OffByOne(a) == IF a <= maxRetries THEN "filter" ELSE "lock"

\* after a failed attempt: time.Sleep, attempt++, loop test
NextPc(a) == IF a + 1 <= maxRetries THEN "filter" ELSE "lock"
NextWhy(a, w) == IF a + 1 <= maxRetries THEN w ELSE "exhausted"

\* rand.Intn over availableProxies, then downloadWithProxy
Attempt(t) ==
  /\ pc[t] = "select" /\ ~crashed
  /\ ~ctx.done
  /\ \E p \in avail[t], o \in Outcomes :
       /\ DownloadOk(o) \/ faultsLeft > 0
       /\ faultsLeft' = IF DownloadOk(o) THEN faultsLeft ELSE faultsLeft - 1
       /\ pickedBad' = (pickedBad \/ p \in badProxies)
       /\ avail' = [avail EXCEPT ![t] = {}]
       /\ gets' = [gets EXCEPT ![t] = @ + 1]
       /\ fs' = [fs EXCEPT ![t] = FileAfter(o, @)]
       /\ lastBody' = [lastBody EXCEPT ![t] = IF o \in Bodies THEN o ELSE "none"]
       /\ connFailed' = IF ConnError(o) THEN connFailed \cup {p} ELSE connFailed
       /\ IF DownloadOk(o)
          THEN /\ pc' = [pc EXCEPT ![t] = "done"]
               /\ outcome' = [outcome EXCEPT ![t] = "fetched"]
               /\ UNCHANGED <<attempt, why, proxyURL>>
          ELSE IF MarksBad(o)
          THEN /\ pc' = [pc EXCEPT ![t] = "mark"]
               /\ proxyURL' = [proxyURL EXCEPT ![t] = p]
               /\ UNCHANGED <<attempt, why, outcome>>
          ELSE /\ pc' = [pc EXCEPT ![t] = NextPc(attempt[t])]
               /\ why' = [why EXCEPT ![t] = NextWhy(attempt[t], @)]
               /\ attempt' = [attempt EXCEPT ![t] = @ + 1]
               /\ UNCHANGED <<outcome, proxyURL>>
  /\ UNCHANGED genVars
  /\ UNCHANGED <<files, workingFile, badProxies, failedURLs, errChan, mu,
                 mainPc, result, crashed, kept>>
  /\ UNCHANGED extVars

\* badProxies[proxyURL] = struct{}{}, written without holding mu
MarkBad(t) ==
  /\ pc[t] = "mark" /\ ~crashed
  /\ badProxies' = badProxies \cup {proxyURL[t]}
  /\ proxyURL' = [proxyURL EXCEPT ![t] = 0]
  /\ pc' = [pc EXCEPT ![t] = NextPc(attempt[t])]
  /\ why' = [why EXCEPT ![t] = NextWhy(attempt[t], @)]
  /\ attempt' = [attempt EXCEPT ![t] = @ + 1]
  /\ UNCHANGED genVars
  /\ UNCHANGED <<files, fs, workingFile, failedURLs, errChan, mu, avail,
                 lastBody, outcome, gets, connFailed, pickedBad, mainPc,
                 result, crashed>>
  /\ UNCHANGED <<faultsLeft, kept>>
  /\ UNCHANGED extVars

\* a task is at an access of the map badProxies: the read of the filter
\* loop or the write that marks a proxy
Reads(t) == pc[t] = "filter" /\ ~GetProxiesErr /\ GetProxies # {}
Writes(t) == pc[t] = "mark"

\* two unsynchronised accesses of the map, one of them a write
MapRace == \E t, u \in Res : t # u /\ Writes(t) /\ (Reads(u) \/ Writes(u))

\* the Go runtime detects the concurrent map access and aborts the process
\* ("fatal error: concurrent map read and map write" / "concurrent map
\* writes"); the other outcome of the race is that the accesses go through
MapRaceFatal ==
  /\ ~crashed /\ MapRace
  /\ crashed' = TRUE
  /\ UNCHANGED genVars
  /\ UNCHANGED <<files, fs, workingFile, badProxies, failedURLs, errChan, mu,
                 pc, attempt, avail, proxyURL, lastBody, why, outcome, gets,
                 connFailed, pickedBad, mainPc, result>>
  /\ UNCHANGED <<faultsLeft, kept>>
  /\ UNCHANGED extVars

\* variant: the resource is appended twice
LockAppend_Twice(t) ==
  /\ pc[t] = "lock" /\ ~crashed
  /\ mu = 0
  /\ mu' = t
  /\ failedURLs' = [failedURLs EXCEPT ![t] = @ + 2]
  /\ pc' = [pc EXCEPT ![t] = "unlock"]
  /\ UNCHANGED genVars
  /\ UNCHANGED <<files, fs, workingFile, badProxies, errChan, attempt, avail,
                 proxyURL, lastBody, why, outcome, gets, connFailed,
                 pickedBad, mainPc, result, crashed>>
  /\ UNCHANGED <<faultsLeft, kept>>
  /\ UNCHANGED extVars

\* mu.Lock(); failedURLs = append(failedURLs, file.URL)
LockAppend(t) ==
  /\ pc[t] = "lock" /\ ~crashed
  /\ mu = 0
  /\ mu' = t
  /\ failedURLs' = [failedURLs EXCEPT ![t] = @ + 1]
  /\ pc' = [pc EXCEPT ![t] = "unlock"]
  /\ UNCHANGED genVars
  /\ UNCHANGED <<files, fs, workingFile, badProxies, errChan, attempt, avail,
                 proxyURL, lastBody, why, outcome, gets, connFailed,
                 pickedBad, mainPc, result, crashed>>
  /\ UNCHANGED <<faultsLeft, kept>>
  /\ UNCHANGED extVars

\* variant: the error is sent twice
UnlockSend_Twice(t) ==
  /\ pc[t] = "unlock" /\ ~crashed
  /\ mu = t
  /\ BagTotal(errChan) < Cardinality(Listed)
  /\ mu' = 0
  /\ errChan' = [errChan EXCEPT ![t] = @ + 2]
  /\ pc' = [pc EXCEPT ![t] = "done"]
  /\ outcome' = [outcome EXCEPT ![t] = why[t]]
  /\ UNCHANGED genVars
  /\ UNCHANGED <<files, fs, workingFile, badProxies, failedURLs, attempt,
                 avail, proxyURL, lastBody, why, gets, connFailed, pickedBad,
                 mainPc, result, crashed>>
  /\ UNCHANGED <<faultsLeft, kept>>
  /\ UNCHANGED extVars

\* mu.Unlock(); errChan <- err; return
UnlockSend(t) ==
  /\ pc[t] = "unlock" /\ ~crashed
  /\ mu = t
  /\ BagTotal(errChan) < Cardinality(Listed)
  /\ mu' = 0
  /\ errChan' = [errChan EXCEPT ![t] = @ + 1]
  /\ pc' = [pc EXCEPT ![t] = "done"]
  /\ outcome' = [outcome EXCEPT ![t] = why[t]]
  /\ UNCHANGED genVars
  /\ UNCHANGED <<files, fs, workingFile, badProxies, failedURLs, attempt,
                 avail, proxyURL, lastBody, why, gets, connFailed, pickedBad,
                 mainPc, result, crashed>>
  /\ UNCHANGED <<faultsLeft, kept>>
  /\ UNCHANGED extVars

\* variant: the failed list is not looked at, the call returns nil
DownloadFilesReturn_Nil ==
  /\ mainPc = "wait" /\ ~crashed
  /\ \A t \in Listed : pc[t] = "done"
  /\ result' = "nil"
  /\ mainPc' = "returned"
  /\ UNCHANGED genVars
  /\ UNCHANGED <<files, fs, workingFile, badProxies, failedURLs, errChan, mu,
                 pc, attempt, avail, proxyURL, lastBody, why, outcome, gets,
                 connFailed, pickedBad, crashed>>
  /\ UNCHANGED <<faultsLeft, kept>>
  /\ UNCHANGED extVars

\* wg.Wait(); close(errChan); drain; the result depends on failedURLs only
DownloadFilesReturn ==
  /\ mainPc = "wait" /\ ~crashed
  /\ \A t \in Listed : pc[t] = "done"
  /\ result' = IF BagTotal(failedURLs) > 0 THEN "error" ELSE "nil"
  /\ mainPc' = "returned"
  /\ UNCHANGED genVars
  /\ UNCHANGED <<files, fs, workingFile, badProxies, failedURLs, errChan, mu,
                 pc, attempt, avail, proxyURL, lastBody, why, outcome, gets,
                 connFailed, pickedBad, crashed>>
  /\ UNCHANGED <<faultsLeft, kept>>
  /\ UNCHANGED extVars

\* ---- one call of DownloadFiles on an arbitrary list ---------------------
WorkingFiles == {[exists |-> FALSE, lines |-> {}]} \cup
                {[exists |-> TRUE, lines |-> 1..k] : k \in 0..NProxies}

\* context.Background(), or a context that is not cancelled (yet)
NoCancel == [done |-> FALSE, inFlight |-> {}]

Idle == /\ ctx = NoCancel
        /\ badProxies = {}
        /\ failedURLs = ZeroBag
        /\ errChan = ZeroBag
        /\ mu = 0
        /\ pc = [r \in Res |-> "idle"]
        /\ attempt = [r \in Res |-> 1]
        /\ avail = [r \in Res |-> {}]
        /\ proxyURL = [r \in Res |-> 0]
        /\ lastBody = [r \in Res |-> "none"]
        /\ why = [r \in Res |-> "none"]
        /\ outcome = [r \in Res |-> "none"]
        /\ gets = [r \in Res |-> 0]
        /\ connFailed = {}
        /\ pickedBad = FALSE
        /\ result = "none"
        /\ crashed = FALSE

NoEntry == [status |-> 0, len |-> 0]
NoURLs == [r \in {} |-> 0]

\* what a probe goroutine knows after its check: how it was answered
\* (local file, row of checked_urls, HEAD request, no proxies), the values
\* CheckFileOnline returned and the HEAD requests it issued
NoProbe == [via |-> "none", err |-> FALSE, status |-> 0, len |-> 0,
            heads |-> 0]
LocalProbe == [via |-> "local", err |-> FALSE, status |-> 0, len |-> 0,
               heads |-> 0]

GenIdle == /\ urls = NoURLs
           /\ probePc = [r \in Res |-> "idle"]
           /\ probed = [r \in Res |-> NoProbe]
           /\ tail = "none"
           /\ stopBatch = FALSE
           /\ startNum = 1

\* ---- Downloader.CheckFileOnline ----------------------------------------
\* what the origin answers to a HEAD request for a resource:
\*   found    : 200 with a Content-Length header
\*   nolength : 200 without a Content-Length header
\*   s204     : a 2xx status other than 200
\*   s403, s404, s500 : the status of that number
RemoteKinds == {"found", "nolength", "s204", "s403", "s404", "s500"}

\* resp.StatusCode and resp.ContentLength of the answer (ContentLength is
\* -1 when the answer to a HEAD request carries no Content-Length)
Answer(k) ==
  CASE k = "found" -> [err |-> FALSE, status |-> 200, len |-> 2]
    [] k = "nolength" -> [err |-> FALSE, status |-> 200, len |-> -1]
    [] k = "s204" -> [err |-> FALSE, status |-> 204, len |-> -1]
    [] k = "s403" -> [err |-> FALSE, status |-> 403, len |-> 0]
    [] k = "s404" -> [err |-> FALSE, status |-> 404, len |-> 0]
    [] OTHER -> [err |-> FALSE, status |-> 500, len |-> 0]

ProbeAnswers == {Answer(k) : k \in RemoteKinds}

ProbeError == [err |-> TRUE, status |-> 0, len |-> 0]

\* variant: the row of checked_urls is not looked at
Via_AlwaysHead(r) == IF GetProxiesErr \/ GetProxies = {} THEN "noproxy"
                     ELSE "head"

\* how a call is answered: by the row of checked_urls when there is one,
\* not at all without proxies, otherwise by one HEAD request
Via(r) == IF checkedUrls[r] # NoEntry THEN "cache"
          ELSE IF GetProxiesErr \/ GetProxies = {} THEN "noproxy"
          ELSE "head"

\* what a call can return: the row of checked_urls when there is one;
\* otherwise an error (no proxies, or the one request failed) or the answer
CheckFileOnline(r) ==
  IF checkedUrls[r] # NoEntry
  THEN {[err |-> FALSE, status |-> checkedUrls[r].status,
         len |-> checkedUrls[r].len]}
  ELSE IF GetProxiesErr \/ GetProxies = {}
       THEN {ProbeError}
       ELSE {ProbeError, Answer(remote[r])}

\* INSERT OR REPLACE INTO checked_urls, after an answer only
Cached(r, a) ==
  IF a.err THEN checkedUrls
  ELSE [checkedUrls EXCEPT ![r] = [status |-> a.status, len |-> a.len]]

\* ---- cmdutils.GenerateURLs (one market code, one day; no --skip-download)
\* urls = append(urls, FileInfo{URL, ContentLength})
AppendURL(r, n) ==
  [x \in (DOMAIN urls) \cup {r} |-> IF x = r THEN n ELSE urls[x]]

\* entry: for trades the first batch of BatchSize numbers, of which the
\* resources are the first; for depth one probe goroutine per resource
GenerateURLsBegin ==
  /\ mainPc = "gen" /\ ~crashed
  /\ mainPc' = "probing"
  /\ urls' = NoURLs
  /\ probePc' = [r \in Res |-> "run"]
  /\ probed' = [r \in Res |-> NoProbe]
  /\ tail' = IF dataType = "trades" THEN "pending" ELSE "none"
  /\ stopBatch' = FALSE
  /\ startNum' = 1
  /\ UNCHANGED <<dataType, skipIfExists, repeatFlag, remote, cycle,
                 checkedUrls>>
  /\ UNCHANGED <<files, fs, workingFile, badProxies, failedURLs, errChan, mu,
                 pc, attempt, avail, proxyURL, lastBody, why, outcome, gets,
                 connFailed, pickedBad, result, crashed>>
  /\ UNCHANGED <<faultsLeft, kept>>
  /\ UNCHANGED extVars

\* --skip-exists and os.Stat finds a file at the local path of the resource
LocalSkip_Never(r) == FALSE

\* --skip-exists and os.Stat finds a file at the local path of the resource
LocalSkip(r) == skipIfExists /\ fs[r] # "none"

\* the probe goroutine of a resource up to its mu.Lock() or its return:
\* the local check of --skip-exists, else CheckFileOnline and the test of
\* the status, for depth with the empty file written on 403 and 404
ProbeTask(r) ==
  /\ mainPc = "probing" /\ probePc[r] = "run" /\ ~crashed
  /\ IF LocalSkip(r)
     THEN /\ probed' = [probed EXCEPT ![r] = LocalProbe]
          /\ probePc' = [probePc EXCEPT ![r] = "lock"]
          /\ UNCHANGED <<checkedUrls, fs>>
     ELSE \E a \in CheckFileOnline(r) :
            /\ checkedUrls' = Cached(r, a)
            /\ probed' = [probed EXCEPT ![r] =
                            [via |-> Via(r), err |-> a.err,
                             status |-> a.status, len |-> a.len,
                             heads |-> IF Via(r) = "head" THEN 1 ELSE 0]]
            /\ IF a.err
               THEN /\ probePc' = [probePc EXCEPT ![r] = "done"]
                    /\ UNCHANGED fs
               ELSE IF a.status # 200 /\ dataType # "trades"
               THEN /\ probePc' = [probePc EXCEPT ![r] = "done"]
                    /\ IF a.status \in {403, 404}
                       THEN fs' \in {fs, [fs EXCEPT ![r] = "empty"]}
                       ELSE UNCHANGED fs
               ELSE /\ probePc' = [probePc EXCEPT ![r] = "lock"]
                    /\ UNCHANGED fs
  /\ UNCHANGED <<dataType, skipIfExists, repeatFlag, remote, cycle, urls,
                 tail, stopBatch, startNum>>
  /\ UNCHANGED <<files, workingFile, badProxies, failedURLs, errChan, mu,
                 pc, attempt, avail, proxyURL, lastBody, why, outcome, gets,
                 connFailed, pickedBad, mainPc, result, crashed>>
  /\ UNCHANGED <<faultsLeft, kept>>
  /\ UNCHANGED extVars

\* mu.Lock() of a probe goroutine, entered without waiting
ProbeLock_NoWait(r) ==
  /\ mainPc = "probing" /\ probePc[r] = "lock" /\ ~crashed
  /\ mu' = r
  /\ probePc' = [probePc EXCEPT ![r] = "commit"]
  /\ UNCHANGED <<dataType, skipIfExists, repeatFlag, remote, cycle, urls,
                 probed, tail, stopBatch, startNum, checkedUrls>>
  /\ UNCHANGED <<files, fs, workingFile, badProxies, failedURLs, errChan,
                 pc, attempt, avail, proxyURL, lastBody, why, outcome, gets,
                 connFailed, pickedBad, mainPc, result, crashed>>
  /\ UNCHANGED <<faultsLeft, kept>>
  /\ UNCHANGED extVars

\* mu.Lock() of a probe goroutine
ProbeLock(r) ==
  /\ mainPc = "probing" /\ probePc[r] = "lock" /\ ~crashed
  /\ mu = 0
  /\ mu' = r
  /\ probePc' = [probePc EXCEPT ![r] = "commit"]
  /\ UNCHANGED <<dataType, skipIfExists, repeatFlag, remote, cycle, urls,
                 probed, tail, stopBatch, startNum, checkedUrls>>
  /\ UNCHANGED <<files, fs, workingFile, badProxies, failedURLs, errChan,
                 pc, attempt, avail, proxyURL, lastBody, why, outcome, gets,
                 connFailed, pickedBad, mainPc, result, crashed>>
  /\ UNCHANGED <<faultsLeft, kept>>
  /\ UNCHANGED extVars

\* the critical section of a probe goroutine, appending nothing once
\* stopBatch is set
ProbeCommit_StopsBatch(r) ==
  /\ mainPc = "probing" /\ probePc[r] = "commit" /\ ~crashed
  /\ IF stopBatch
     THEN UNCHANGED <<urls, stopBatch>>
     ELSE IF probed[r].via = "local"
     THEN urls' = AppendURL(r, 0) /\ UNCHANGED stopBatch
     ELSE IF probed[r].status = 200
          THEN urls' = AppendURL(r, probed[r].len) /\ UNCHANGED stopBatch
          ELSE stopBatch' = TRUE /\ UNCHANGED urls
  /\ mu' = 0
  /\ probePc' = [probePc EXCEPT ![r] = "done"]
  /\ UNCHANGED <<dataType, skipIfExists, repeatFlag, remote, cycle,
                 probed, tail, startNum, checkedUrls>>
  /\ UNCHANGED <<files, fs, workingFile, badProxies, failedURLs, errChan,
                 pc, attempt, avail, proxyURL, lastBody, why, outcome, gets,
                 connFailed, pickedBad, mainPc, result, crashed>>
  /\ UNCHANGED <<faultsLeft, kept>>
  /\ UNCHANGED extVars

\* the critical section of a probe goroutine and its mu.Unlock(): the
\* append of the resource (with size 0 for a local file), or for trades
\* stopBatch = true after a status that is not 200
ProbeCommit(r) ==
  /\ mainPc = "probing" /\ probePc[r] = "commit" /\ ~crashed
  /\ IF probed[r].via = "local"
     THEN urls' = AppendURL(r, 0) /\ UNCHANGED stopBatch
     ELSE IF probed[r].status = 200
          THEN urls' = AppendURL(r, probed[r].len) /\ UNCHANGED stopBatch
          ELSE stopBatch' = TRUE /\ UNCHANGED urls
  /\ mu' = 0
  /\ probePc' = [probePc EXCEPT ![r] = "done"]
  /\ UNCHANGED <<dataType, skipIfExists, repeatFlag, remote, cycle,
                 probed, tail, startNum, checkedUrls>>
  /\ UNCHANGED <<files, fs, workingFile, badProxies, failedURLs, errChan,
                 pc, attempt, avail, proxyURL, lastBody, why, outcome, gets,
                 connFailed, pickedBad, mainPc, result, crashed>>
  /\ UNCHANGED <<faultsLeft, kept>>
  /\ UNCHANGED extVars

\* variant: a probe that ends in an error sets stopBatch as well
ProbeTail_ErrorStops ==
  /\ mainPc = "probing" /\ tail = "pending" /\ ~crashed
  /\ mu = 0
  /\ \E k \in {"absent", "error"} :
       /\ tail' = k
       /\ stopBatch' = TRUE
  /\ UNCHANGED <<dataType, skipIfExists, repeatFlag, remote, cycle, urls,
                 probePc, probed, startNum, checkedUrls>>
  /\ UNCHANGED <<files, fs, workingFile, badProxies, failedURLs, errChan, mu,
                 pc, attempt, avail, proxyURL, lastBody, why, outcome, gets,
                 connFailed, pickedBad, mainPc, result, crashed>>
  /\ UNCHANGED <<faultsLeft, kept>>
  /\ UNCHANGED extVars

\* the probes of the batch for the numbers beyond the last resource: no
\* archive exists for them, so all of them end in an error ("error"), or
\* one of them is answered and sets stopBatch under mu ("absent")
ProbeTail ==
  /\ mainPc = "probing" /\ tail = "pending" /\ ~crashed
  /\ mu = 0
  /\ \E k \in {"absent", "error"} :
       /\ tail' = k
       /\ stopBatch' = (stopBatch \/ k = "absent")
  /\ UNCHANGED <<dataType, skipIfExists, repeatFlag, remote, cycle, urls,
                 probePc, probed, startNum, checkedUrls>>
  /\ UNCHANGED <<files, fs, workingFile, badProxies, failedURLs, errChan, mu,
                 pc, attempt, avail, proxyURL, lastBody, why, outcome, gets,
                 connFailed, pickedBad, mainPc, result, crashed>>
  /\ UNCHANGED <<faultsLeft, kept>>
  /\ UNCHANGED extVars

\* wg.Wait() has returned: every goroutine of the batch has ended
BatchDone == /\ \A r \in Res : probePc[r] \in {"idle", "done"}
             /\ tail # "pending"

\* wg.Wait() of a batch without stopBatch: startNum += BatchSize
NextBatch ==
  /\ mainPc = "probing" /\ dataType = "trades" /\ ~crashed
  /\ BatchDone /\ ~stopBatch
  /\ startNum + BatchSize <= LastNum
  /\ startNum' = startNum + BatchSize
  /\ tail' = "pending"
  /\ stopBatch' = FALSE
  /\ UNCHANGED <<dataType, skipIfExists, repeatFlag, remote, cycle, urls,
                 probePc, probed, checkedUrls>>
  /\ UNCHANGED <<files, fs, workingFile, badProxies, failedURLs, errChan, mu,
                 pc, attempt, avail, proxyURL, lastBody, why, outcome, gets,
                 connFailed, pickedBad, mainPc, result, crashed>>
  /\ UNCHANGED <<faultsLeft, kept>>
  /\ UNCHANGED extVars

\* the loops of GenerateURLs have ended and the final wg.Wait() returned
GenerateURLsDone ==
  /\ mainPc = "probing"
  /\ BatchDone
  /\ \/ dataType = "depth"
     \/ stopBatch
     \/ startNum + BatchSize > LastNum

\* return urls, nil -- main passes urls to DownloadFiles
GenerateURLsReturn ==
  /\ GenerateURLsDone /\ ~crashed
  /\ files' = urls
  /\ mainPc' = "call"
  /\ urls' = NoURLs
  /\ probePc' = [r \in Res |-> "idle"]
  /\ probed' = [r \in Res |-> NoProbe]
  /\ tail' = "none"
  /\ stopBatch' = FALSE
  /\ startNum' = 1
  /\ UNCHANGED <<dataType, skipIfExists, repeatFlag, remote, cycle,
                 checkedUrls>>
  /\ UNCHANGED <<fs, workingFile, badProxies, failedURLs, errChan, mu,
                 pc, attempt, avail, proxyURL, lastBody, why, outcome, gets,
                 connFailed, pickedBad, result, crashed>>
  /\ UNCHANGED <<faultsLeft, kept>>
  /\ UNCHANGED extVars

\* the next enumerate -> download cycle (a repetition of the main loop, or
\* the next run of the program on the same data directory)
NextCycle ==
  /\ mainPc = "returned" /\ ~crashed
  /\ cycle < MaxCycles
  /\ cycle' = cycle + 1
  /\ mainPc' = "gen"
  /\ failedURLs' = ZeroBag
  /\ errChan' = ZeroBag
  /\ pc' = [r \in Res |-> "idle"]
  /\ attempt' = [r \in Res |-> 1]
  /\ lastBody' = [r \in Res |-> "none"]
  /\ why' = [r \in Res |-> "none"]
  /\ outcome' = [r \in Res |-> "none"]
  /\ gets' = [r \in Res |-> 0]
  /\ result' = "none"
  /\ files' = NoURLs
  /\ UNCHANGED <<dataType, skipIfExists, repeatFlag, remote, urls, probePc,
                 probed, tail, stopBatch, startNum, checkedUrls>>
  /\ UNCHANGED <<fs, workingFile, badProxies, mu, avail, proxyURL,
                 connFailed, pickedBad, crashed>>
  /\ kept' = {r \in Res : fs[r] = "zip"}
  /\ UNCHANGED faultsLeft
  /\ UNCHANGED extVars

InitDL ==
  /\ ProxyIdle
  /\ LoadIdle
  /\ dataType = "trades"
  /\ skipIfExists = FALSE
  /\ repeatFlag = FALSE
  /\ remote = [r \in Res |-> "found"]
  /\ cycle = 1
  /\ checkedUrls = [r \in Res |-> NoEntry]
  /\ GenIdle
  /\ files \in [Res -> Hints]
  /\ fs \in [Res -> {"none", "corrupt", "zip"}]
  /\ workingFile \in WorkingFiles
  /\ mainPc = "call"
  /\ Idle
  /\ faultsLeft = MaxFaults
  /\ kept = {r \in Res : fs[r] = "zip"}

ProbeStep(r) == \/ ProbeTask(r)
                \/ ProbeLock(r)
                \/ ProbeCommit(r)

TaskStep(t) == \/ SkipCheck(t)
               \/ FilterProxies(t)
               \/ Attempt(t)
               \/ MarkBad(t)
               \/ LockAppend(t)
               \/ UnlockSend(t)

NextDL == \/ DownloadFilesBegin
          \/ \E t \in Res : TaskStep(t)
          \/ MapRaceFatal
          \/ DownloadFilesReturn

SpecDL == InitDL /\ [][NextDL]_vars

\* one call of DownloadFiles under a fair scheduler: every goroutine that
\* can run takes its steps, and every call of downloadWithProxy returns
\* (http.Client.Timeout)
InitTerm ==
  /\ ProxyIdle
  /\ LoadIdle
  /\ dataType = "trades"
  /\ skipIfExists = FALSE
  /\ repeatFlag = FALSE
  /\ remote = [r \in Res |-> "found"]
  /\ cycle = 1
  /\ checkedUrls = [r \in Res |-> NoEntry]
  /\ GenIdle
  /\ files \in [Res -> Hints]
  /\ fs \in {[r \in Res |-> "none"], [r \in Res |-> "zip"]}
  /\ workingFile \in WorkingFiles
  /\ mainPc = "call"
  /\ Idle
  /\ faultsLeft = MaxFaults
  /\ kept = {r \in Res : fs[r] = "zip"}

NextTerm == \/ DownloadFilesBegin
            \/ \E t \in Res : TaskStep(t)
            \/ MapRaceFatal
            \/ DownloadFilesReturn

SpecTerm == InitTerm /\ [][NextTerm]_vars

FairTerm == SpecTerm /\ WF_vars(NextTerm)

\* ---- enumerate -> download cycles ---------------------------------------
\* the answers of the origin in the runs of several cycles
CycleKinds == {"found", "s404"}

InitCycle ==
  /\ ProxyIdle
  /\ LoadIdle
  /\ dataType \in {"trades", "depth"}
  /\ skipIfExists \in BOOLEAN
  /\ repeatFlag = FALSE
  /\ remote \in [Res -> CycleKinds]
  /\ cycle = 1
  /\ checkedUrls = [r \in Res |-> NoEntry]
  /\ GenIdle
  /\ files = NoURLs
  /\ fs \in [Res -> {"none", "zip"}]
  /\ workingFile \in WorkingFiles
  /\ mainPc = "gen"
  /\ Idle
  /\ faultsLeft = MaxRunFaults
  /\ kept = {r \in Res : fs[r] = "zip"}

NextCycleSpec == \/ GenerateURLsBegin
                 \/ \E r \in Res : ProbeStep(r)
                 \/ ProbeTail
                 \/ NextBatch
                 \/ GenerateURLsReturn
                 \/ DownloadFilesBegin
                 \/ \E t \in Res : TaskStep(t)
                 \/ MapRaceFatal
                 \/ DownloadFilesReturn
                 \/ NextCycle

SpecCycle == InitCycle /\ [][NextCycleSpec]_vars

\* ---- the main loop of one invocation -----------------------------------
\* variant: --repeat is kept whatever --skip-exists is
CheckRepeat_Keep ==
  /\ mainPc = "flags"
  /\ mainPc' = "gen"
  /\ UNCHANGED <<dataType, skipIfExists, repeatFlag, remote, cycle, urls,
                 probePc, probed, tail, stopBatch, startNum, checkedUrls>>
  /\ UNCHANGED <<files, fs, workingFile, badProxies, failedURLs, errChan, mu,
                 pc, attempt, avail, proxyURL, lastBody, why, outcome, gets,
                 connFailed, pickedBad, result, crashed>>
  /\ UNCHANGED <<faultsLeft, kept>>
  /\ UNCHANGED extVars

\* if *repeatFlag && !*skipExistsFlag { *repeatFlag = false }
CheckRepeat ==
  /\ mainPc = "flags"
  /\ mainPc' = "gen"
  /\ repeatFlag' = (repeatFlag /\ skipIfExists)
  /\ UNCHANGED <<dataType, skipIfExists, remote, cycle, urls,
                 probePc, probed, tail, stopBatch, startNum, checkedUrls>>
  /\ UNCHANGED <<files, fs, workingFile, badProxies, failedURLs, errChan, mu,
                 pc, attempt, avail, proxyURL, lastBody, why, outcome, gets,
                 connFailed, pickedBad, result, crashed>>
  /\ UNCHANGED <<faultsLeft, kept>>
  /\ UNCHANGED extVars

\* the end of the loop body: if !*repeatFlag || len(urls) == 0 { break }
\* otherwise the next cycle
LoopRepeat ==
  /\ repeatFlag /\ DOMAIN files # {}
  /\ NextCycle

LoopExit ==
  /\ mainPc = "returned" /\ ~crashed
  /\ ~repeatFlag \/ DOMAIN files = {}
  /\ mainPc' = "exit"
  /\ UNCHANGED genVars
  /\ UNCHANGED <<files, fs, workingFile, badProxies, failedURLs, errChan, mu,
                 pc, attempt, avail, proxyURL, lastBody, why, outcome, gets,
                 connFailed, pickedBad, result, crashed>>
  /\ UNCHANGED <<faultsLeft, kept>>
  /\ UNCHANGED extVars

\* the flags as given, and a working-set file with a proxy (without one
\* main ends before the first enumeration)
InitMain ==
  /\ ProxyIdle
  /\ LoadIdle
  /\ dataType \in {"trades", "depth"}
  /\ skipIfExists \in BOOLEAN
  /\ repeatFlag \in BOOLEAN
  /\ remote \in [Res -> CycleKinds]
  /\ cycle = 1
  /\ checkedUrls = [r \in Res |-> NoEntry]
  /\ GenIdle
  /\ files = NoURLs
  /\ fs \in [Res -> {"none", "zip"}]
  /\ workingFile \in {w \in WorkingFiles : w.exists /\ w.lines # {}}
  /\ mainPc = "flags"
  /\ Idle
  /\ faultsLeft = MaxRunFaults
  /\ kept = {r \in Res : fs[r] = "zip"}

NextMain == \/ CheckRepeat
            \/ GenerateURLsBegin
            \/ \E r \in Res : ProbeStep(r)
            \/ ProbeTail
            \/ NextBatch
            \/ GenerateURLsReturn
            \/ DownloadFilesBegin
            \/ \E t \in Res : TaskStep(t)
            \/ MapRaceFatal
            \/ DownloadFilesReturn
            \/ LoopRepeat
            \/ LoopExit

SpecMain == InitMain /\ [][NextMain]_vars

\* ---- one call of GenerateURLs -------------------------------------------
\* the rows of checked_urls left by earlier runs: answers of the origin
CachedRows ==
  {c \in [Res -> {NoEntry} \cup
                 {[status |-> a.status, len |-> a.len] : a \in ProbeAnswers}] :
     \A r \in Res :
        c[r] # NoEntry =>
          c[r] = [status |-> Answer(remote[r]).status,
                  len |-> Answer(remote[r]).len]}

InitGen ==
  /\ ProxyIdle
  /\ LoadIdle
  /\ dataType \in {"trades", "depth"}
  /\ skipIfExists \in BOOLEAN
  /\ repeatFlag = FALSE
  /\ remote \in [Res -> RemoteKinds]
  /\ cycle = 1
  /\ checkedUrls \in CachedRows
  /\ GenIdle
  /\ files = NoURLs
  /\ fs \in [Res -> {"none", "zip"}]
  /\ workingFile \in WorkingFiles
  /\ mainPc = "gen"
  /\ Idle
  /\ faultsLeft = 0
  /\ kept = {r \in Res : fs[r] = "zip"}

NextGen == \/ GenerateURLsBegin
           \/ \E r \in Res : ProbeStep(r)
           \/ ProbeTail
           \/ NextBatch
           \/ GenerateURLsReturn

SpecGen == InitGen /\ [][NextGen]_vars

\* ---- main: the load stage ------------------------------------------------
\* trades: for _, group := range zipGroups (groups with archives only);
\* depth: the one group, whose load is left out when it has no archive;
\* when os.MkdirAll fails, main goes on with the next group (trades) or
\* with MoveTempDatabase (depth)
GroupBegin ==
  /\ loadPc = "group"
  /\ loadErr' = {}
  /\ IF dataType = "trades"
     THEN IF group > NGroups
          THEN loadPc' = "loaded" /\ UNCHANGED group
          ELSE IF zipDir[group] = <<>>
          THEN group' = group + 1 /\ UNCHANGED loadPc
          ELSE \/ loadPc' = "copy" /\ UNCHANGED group
               \/ group' = group + 1 /\ UNCHANGED loadPc
     ELSE /\ loadPc' \in IF zipDir[group] = <<>> THEN {"move"}
                          ELSE {"newdb", "move"}
          /\ UNCHANGED group
  /\ UNCHANGED <<live, backup, temp, zipDir, zipFiles, liveBefore, moved,
                 pass>>
  /\ UNCHANGED otherThanLoad

\* variant: the live database is not copied to the temp path
CopyLive_Skip ==
  /\ loadPc = "copy"
  /\ loadPc' = "newdb"
  /\ UNCHANGED <<live, backup, temp, group, zipDir, zipFiles, loadErr,
                 liveBefore, moved, pass>>
  /\ UNCHANGED otherThanLoad

\* trades: when a database exists at dbPath it is copied to TempDbPath;
\* when the open, the create or the copy fails, main goes on with the next
\* group (the temp file then is as it was, or truncated)
CopyLive ==
  /\ loadPc = "copy"
  /\ IF live[group].exists
     THEN \/ /\ temp' = [temp EXCEPT ![group] = live[group]]
             /\ loadPc' = "newdb"
             /\ UNCHANGED group
          \/ /\ temp' \in {temp, [temp EXCEPT ![group] = Truncated]}
             /\ loadPc' = "group"
             /\ group' = group + 1
     ELSE /\ loadPc' = "newdb"
          /\ UNCHANGED <<temp, group>>
  /\ UNCHANGED <<live, backup, zipDir, zipFiles, loadErr, liveBefore, moved,
                 pass>>
  /\ UNCHANGED otherThanLoad

\* db.NewDB(TempDbPath): opens the file or creates it, CREATE TABLE IF NOT
\* EXISTS; on an error main goes on with the next group (trades) or with
\* MoveTempDatabase (depth)
NewDB ==
  /\ loadPc = "newdb"
  /\ \/ /\ temp' = [temp EXCEPT ![group] =
                      IF @.exists /\ @.whole THEN @ ELSE DbOf(EmptyTable)]
        /\ loadPc' = "process"
        /\ UNCHANGED group
     \/ /\ UNCHANGED temp
        /\ IF dataType = "trades"
           THEN loadPc' = "group" /\ group' = group + 1
           ELSE loadPc' = "move" /\ UNCHANGED group
  /\ UNCHANGED <<live, backup, zipDir, zipFiles, loadErr, liveBefore, moved,
                 pass>>
  /\ UNCHANGED otherThanLoad

\* DB.ProcessZipFiles up to its loop: the raw directory is cleaned, for
\* depth the tables are dropped and created again; an error is returned
ProcessZipFilesBegin ==
  /\ loadPc = "process"
  /\ \/ /\ loadErr' = loadErr \cup {"process"}
        /\ loadPc' = "close"
        /\ temp' \in IF dataType = "depth"
                      THEN {temp, [temp EXCEPT ![group] = DbOf(EmptyTable)]}
                      ELSE {temp}
        /\ UNCHANGED zipFiles
     \/ /\ zipFiles' = zipDir[group]
        /\ loadPc' = "zips"
        /\ temp' = IF dataType = "depth"
                   THEN [temp EXCEPT ![group] = DbOf(EmptyTable)]
                   ELSE temp
        /\ UNCHANGED loadErr
  /\ UNCHANGED <<live, backup, group, zipDir, liveBefore, moved, pass>>
  /\ UNCHANGED otherThanLoad

\* one turn of the loop of ProcessZipFiles: os.Stat fails and the error is
\* returned; or processSingleZip fails (the transaction is rolled back)
\* and the loop goes on; or the records of the archive are committed
processSingleZip ==
  /\ loadPc = "zips" /\ zipFiles # <<>>
  /\ \/ /\ loadErr' = loadErr \cup {"process"}
        /\ loadPc' = "close"
        /\ zipFiles' = <<>>
        /\ UNCHANGED temp
     \/ /\ zipFiles' = Tail(zipFiles)
        /\ UNCHANGED <<temp, loadPc, loadErr>>
     \/ /\ zipFiles' = Tail(zipFiles)
        /\ temp' = [temp EXCEPT ![group] =
                      DbOf(processCSV(@.tbl, Head(zipFiles)))]
        /\ UNCHANGED <<loadPc, loadErr>>
  /\ UNCHANGED <<live, backup, group, zipDir, liveBefore, moved, pass>>
  /\ UNCHANGED otherThanLoad

\* the loop of ProcessZipFiles has ended: return nil
ProcessZipFilesReturn ==
  /\ loadPc = "zips" /\ zipFiles = <<>>
  /\ loadPc' = "close"
  /\ UNCHANGED <<live, backup, temp, group, zipDir, zipFiles, loadErr,
                 liveBefore, moved, pass>>
  /\ UNCHANGED otherThanLoad

\* DB.Close: an error of conn.Close is returned, and main logs it
Close ==
  /\ loadPc = "close"
  /\ \E ok \in BOOLEAN :
       loadErr' = IF ok THEN loadErr ELSE loadErr \cup {"close"}
  /\ loadPc' = "move"
  /\ UNCHANGED <<live, backup, temp, group, zipDir, zipFiles, liveBefore,
                 moved, pass>>
  /\ UNCHANGED otherThanLoad

\* ---- cmdutils.MoveTempDatabase ---------------------------------------------
\* variant: the backup is not renamed back
Restored_Not(l, b) == l

\* the file at dbPath after "if backupPath exists, os.Rename(backupPath,
\* dbPath)"
Restored(l, b) == IF b.exists THEN b ELSE l

\* MoveTempDatabase returns an error: the backup is renamed back, and main
\* ends the process (log.Fatalf)
MoveFails ==
  /\ live' = [live EXCEPT ![group] = Restored(@, backup[group])]
  /\ backup' = [backup EXCEPT ![group] =
                  IF live'[group] = @ THEN NoFile ELSE @]
  /\ loadPc' = "fatal"
  /\ loadErr' = loadErr \cup {"swap"}
  /\ UNCHANGED <<temp, group, zipDir, zipFiles, liveBefore, moved, pass>>
  /\ UNCHANGED otherThanLoad

\* if dbPath exists: os.Rename(dbPath, backupPath), whose error is returned
MoveBackup ==
  /\ loadPc = "move"
  /\ IF live[group].exists
     THEN \/ /\ backup' = [backup EXCEPT ![group] = live[group]]
             /\ live' = [live EXCEPT ![group] = NoFile]
             /\ loadPc' = "mvopen"
             /\ UNCHANGED loadErr
          \/ /\ loadPc' = "fatal"
             /\ loadErr' = loadErr \cup {"backup"}
             /\ UNCHANGED <<live, backup>>
     ELSE /\ loadPc' = "mvopen"
          /\ UNCHANGED <<live, backup, loadErr>>
  /\ UNCHANGED <<temp, group, zipDir, zipFiles, liveBefore, moved, pass>>
  /\ UNCHANGED otherThanLoad

\* os.Open(TempDbPath)
MoveOpen ==
  /\ loadPc = "mvopen"
  /\ \/ /\ temp[group].exists
        /\ loadPc' = "mvcreate"
        /\ UNCHANGED <<live, backup, temp, group, zipDir, zipFiles, loadErr,
                       liveBefore, moved, pass>>
        /\ UNCHANGED otherThanLoad
     \/ MoveFails

\* os.Create(dbPath)
MoveCreate ==
  /\ loadPc = "mvcreate"
  /\ \/ /\ live' = [live EXCEPT ![group] = Truncated]
        /\ loadPc' = "mvcopy"
        /\ UNCHANGED <<backup, temp, group, zipDir, zipFiles, loadErr,
                       liveBefore, moved, pass>>
        /\ UNCHANGED otherThanLoad
     \/ MoveFails

\* io.Copy(dstFile, srcFile)
MoveCopy ==
  /\ loadPc = "mvcopy"
  /\ \/ /\ live' = [live EXCEPT ![group] = temp[group]]
        /\ loadPc' = "mvsync"
        /\ UNCHANGED <<backup, temp, group, zipDir, zipFiles, loadErr,
                       liveBefore, moved, pass>>
        /\ UNCHANGED otherThanLoad
     \/ MoveFails

\* dstFile.Sync()
MoveSync ==
  /\ loadPc = "mvsync"
  /\ \/ /\ loadPc' = "mvremove"
        /\ UNCHANGED <<live, backup, temp, group, zipDir, zipFiles, loadErr,
                       liveBefore, moved, pass>>
        /\ UNCHANGED otherThanLoad
     \/ MoveFails

\* os.Remove(TempDbPath), whose error is only logged; return nil, and main
\* goes on with the next group
MoveRemove ==
  /\ loadPc = "mvremove"
  /\ temp' \in {temp, [temp EXCEPT ![group] = NoFile]}
  /\ moved' = moved \cup {group}
  /\ IF dataType = "trades"
     THEN loadPc' = "group" /\ group' = group + 1
     ELSE loadPc' = "loaded" /\ UNCHANGED group
  /\ UNCHANGED <<live, backup, zipDir, zipFiles, loadErr, liveBefore, pass>>
  /\ UNCHANGED otherThanLoad

MoveTempDatabase == \/ MoveBackup
                    \/ MoveOpen
                    \/ MoveCreate
                    \/ MoveCopy
                    \/ MoveSync
                    \/ MoveRemove

\* ---- the load stage of one pass of main ------------------------------------
\* the lists of the groups, each of at most one archive with one record
SmallLists == {<<>>} \cup {<< <<r>> >> : r \in Rows}

\* the database files a pass can find: none, a database, or at the
\* temp path a file left truncated by a pass that broke off
FilesBefore == {NoFile, DbOf(EmptyTable), DbOf([EmptyTable EXCEPT ![<<1, "a">>] = 1])}

InitLoad ==
  /\ ProxyIdle
  /\ dataType \in {"trades", "depth"}
  /\ skipIfExists = FALSE
  /\ repeatFlag = FALSE
  /\ remote = [r \in Res |-> "found"]
  /\ cycle = 1
  /\ checkedUrls = [r \in Res |-> NoEntry]
  /\ GenIdle
  /\ files = NoURLs
  /\ fs = [r \in Res |-> "none"]
  /\ workingFile = [exists |-> FALSE, lines |-> {}]
  /\ mainPc = "load"
  /\ Idle
  /\ faultsLeft = 0
  /\ kept = {}
  /\ live \in [Groups -> FilesBefore]
  /\ backup \in [Groups -> {NoFile, DbOf(EmptyTable)}]
  /\ temp \in [Groups -> {NoFile, Truncated, DbOf([EmptyTable EXCEPT ![<<2, "b">>] = 1])}]
  /\ loadPc = "group"
  /\ group = 1
  /\ zipDir \in [Groups -> SmallLists]
  /\ dataType = "depth" => \A g \in Groups : g > 1 => zipDir[g] = <<>>
  /\ zipFiles = <<>>
  /\ loadErr = {}
  /\ liveBefore = live
  /\ moved = {}
  /\ pass = 1

NextLoad == \/ GroupBegin
            \/ CopyLive
            \/ NewDB
            \/ ProcessZipFilesBegin
            \/ processSingleZip
            \/ ProcessZipFilesReturn
            \/ Close
            \/ MoveTempDatabase

SpecLoad == InitLoad /\ [][NextLoad]_vars

\* ---- the loads into one database -----------------------------------------
\* the next pass over the same database (the next cycle of main, whose
\* temp copy has the rows of the pass before): the directory is walked
\* again and has the archives of the pass before and those fetched since
NextPass ==
  /\ loadPc = "move"
  /\ pass < MaxPasses
  /\ pass' = pass + 1
  /\ zipDir' \in {zipDir} \cup
       {[zipDir EXCEPT ![group] = Append(@, a)] :
          a \in IF Len(zipDir[group]) < MaxZips THEN Archives ELSE {}}
  /\ loadPc' = "newdb"
  /\ loadErr' = {}
  /\ UNCHANGED <<live, backup, temp, group, zipFiles, liveBefore, moved>>
  /\ UNCHANGED otherThanLoad

InitImport ==
  /\ ProxyIdle
  /\ dataType \in {"trades", "depth"}
  /\ skipIfExists = FALSE
  /\ repeatFlag = FALSE
  /\ remote = [r \in Res |-> "found"]
  /\ cycle = 1
  /\ checkedUrls = [r \in Res |-> NoEntry]
  /\ GenIdle
  /\ files = NoURLs
  /\ fs = [r \in Res |-> "none"]
  /\ workingFile = [exists |-> FALSE, lines |-> {}]
  /\ mainPc = "load"
  /\ Idle
  /\ faultsLeft = 0
  /\ kept = {}
  /\ live = [g \in Groups |-> NoFile]
  /\ backup = [g \in Groups |-> NoFile]
  /\ temp = [g \in Groups |-> NoFile]
  /\ loadPc = "newdb"
  /\ group = 1
  /\ \E l \in ZipLists : zipDir = [g \in Groups |-> IF g = 1 THEN l ELSE <<>>]
  /\ zipFiles = <<>>
  /\ loadErr = {}
  /\ liveBefore = live
  /\ moved = {}
  /\ pass = 1

NextImport == \/ NewDB
              \/ ProcessZipFilesBegin
              \/ processSingleZip
              \/ ProcessZipFilesReturn
              \/ Close
              \/ NextPass

SpecImport == InitImport /\ [][NextImport]_vars

\* ---- ProxyManager.EnsureProxies -------------------------------------------
otherThanProxy == <<runVars, loadVars, ctx>>

\* the elements of a slice
Range(q) == {q[i] : i \in DOMAIN q}

\* downloadProxies: nothing to do when the raw file is there; otherwise the
\* file is created and the lists are fetched into it, and an error leaves
\* the file as far as it was written
downloadProxies ==
  /\ pmPc = "ensure"
  /\ IF rawFile.exists
     THEN /\ pmPc' = "load"
          /\ UNCHANGED <<rawFile, pmErr>>
     ELSE \/ /\ pmPc' = "returned"
             /\ pmErr' = "download"
             /\ \E l \in SUBSET Proxies :
                  rawFile' \in {rawFile, [exists |-> TRUE, lines |-> l]}
          \/ /\ pmPc' = "load"
             /\ \E l \in SUBSET Proxies :
                  rawFile' = [exists |-> TRUE, lines |-> l]
             /\ UNCHANGED pmErr
  /\ UNCHANGED <<echo, chkPc, results, workingProxies, pmWorking, got,
                 getErr, workingFile>>
  /\ UNCHANGED otherThanProxy

\* loadProxies(rawFile) and the test of the length; then checkProxies
\* starts a goroutine for each candidate and the collector
loadProxies ==
  /\ pmPc = "load"
  /\ \/ /\ pmPc' = "returned"
        /\ pmErr' = "load"
        /\ UNCHANGED chkPc
     \/ /\ rawFile.lines = {}
        /\ pmPc' = "returned"
        /\ pmErr' = "empty"
        /\ UNCHANGED chkPc
     \/ /\ rawFile.lines # {}
        /\ pmPc' = "check"
        /\ chkPc' = [p \in Proxies |->
                       IF p \in rawFile.lines THEN "run" ELSE "idle"]
        /\ UNCHANGED pmErr
  /\ UNCHANGED <<rawFile, echo, results, workingProxies, pmWorking, got,
                 getErr, workingFile>>
  /\ UNCHANGED otherThanProxy

\* the goroutine of a candidate: checkProxy, and a send on the results
\* channel (which has room for every candidate) when the body of the echo
\* request is the host of the candidate
checkProxy(p) ==
  /\ pmPc = "check" /\ chkPc[p] = "run"
  /\ chkPc' = [chkPc EXCEPT ![p] = "done"]
  /\ results' = IF echo[p] = "own" THEN results \cup {p} ELSE results
  /\ UNCHANGED <<rawFile, echo, pmPc, workingProxies, pmWorking, pmErr, got,
                 getErr, workingFile>>
  /\ UNCHANGED otherThanProxy

\* the collector goroutine: one turn of "for p := range results"
Collect ==
  /\ pmPc = "check"
  /\ \E p \in results :
       /\ results' = results \ {p}
       /\ workingProxies' = Append(workingProxies, p)
  /\ UNCHANGED <<rawFile, echo, pmPc, chkPc, pmWorking, pmErr, got, getErr,
                 workingFile>>
  /\ UNCHANGED otherThanProxy

\* checkProxies: wg.Wait(), close(results), return workingProxies. The
\* collector is not waited for and workingProxies is read without mu: the
\* caller gets the slice as it is or as it was
checkProxiesReturn ==
  /\ pmPc = "check"
  /\ \A p \in Proxies : chkPc[p] # "run"
  /\ \E k \in 0..Len(workingProxies) :
       pmWorking' = SubSeq(workingProxies, 1, k)
  /\ pmPc' = "checked"
  /\ UNCHANGED <<rawFile, echo, chkPc, results, workingProxies, pmErr, got,
                 getErr, workingFile>>
  /\ UNCHANGED otherThanProxy

\* variant: the surviving set is saved whatever its length
EnsureChecked_SaveAlways ==
  /\ pmPc = "checked"
  /\ pmPc' = "save"
  /\ UNCHANGED <<rawFile, echo, chkPc, results, workingProxies, pmWorking,
                 pmErr, got, getErr, workingFile>>
  /\ UNCHANGED otherThanProxy

\* EnsureProxies: if len(workingProxies) == 0, "no working proxies found"
EnsureChecked ==
  /\ pmPc = "checked"
  /\ IF pmWorking = <<>>
     THEN pmPc' = "returned" /\ pmErr' = "noworking"
     ELSE pmPc' = "save" /\ UNCHANGED pmErr
  /\ UNCHANGED <<rawFile, echo, chkPc, results, workingProxies, pmWorking,
                 got, getErr, workingFile>>
  /\ UNCHANGED otherThanProxy

\* saveProxies: MkdirAll or os.Create fails and the file is as it was; or
\* the file is created anew and a write fails; or all lines are written
saveProxies ==
  /\ pmPc = "save"
  /\ \/ /\ pmErr' = "save"
        /\ UNCHANGED workingFile
     \/ /\ pmErr' = "save"
        /\ \E k \in 0..(Len(pmWorking) - 1) :
             workingFile' = [exists |-> TRUE,
                             lines |-> Range(SubSeq(pmWorking, 1, k))]
     \/ /\ pmErr' = "nil"
        /\ workingFile' = [exists |-> TRUE, lines |-> Range(pmWorking)]
  /\ pmPc' = "returned"
  /\ UNCHANGED <<rawFile, echo, chkPc, results, workingProxies, pmWorking,
                 got, getErr>>
  /\ UNCHANGED otherThanProxy

\* a caller of GetProxies after EnsureProxies has returned
GetProxiesCall ==
  /\ pmPc = "returned"
  /\ pmPc' = "got"
  /\ getErr' = GetProxiesErr
  /\ got' = IF GetProxiesErr THEN {} ELSE GetProxies
  /\ UNCHANGED <<rawFile, echo, chkPc, results, workingProxies, pmWorking,
                 pmErr, workingFile>>
  /\ UNCHANGED otherThanProxy

RawFiles == {[exists |-> FALSE, lines |-> {}]} \cup
            {[exists |-> TRUE, lines |-> l] : l \in SUBSET Proxies}

InitProxy ==
  /\ LoadIdle
  /\ dataType = "trades"
  /\ skipIfExists = FALSE
  /\ repeatFlag = FALSE
  /\ remote = [r \in Res |-> "found"]
  /\ cycle = 1
  /\ checkedUrls = [r \in Res |-> NoEntry]
  /\ GenIdle
  /\ files = NoURLs
  /\ fs = [r \in Res |-> "none"]
  /\ mainPc = "ensure"
  /\ Idle
  /\ faultsLeft = 0
  /\ kept = {}
  /\ workingFile \in WorkingFiles
  /\ rawFile \in RawFiles
  /\ echo \in [Proxies -> EchoKinds]
  /\ pmPc = "ensure"
  /\ chkPc = [p \in Proxies |-> "idle"]
  /\ results = {}
  /\ workingProxies = <<>>
  /\ pmWorking = <<>>
  /\ pmErr = "nil"
  /\ got = {}
  /\ getErr = FALSE

NextProxy == \/ downloadProxies
             \/ loadProxies
             \/ \E p \in Proxies : checkProxy(p)
             \/ Collect
             \/ checkProxiesReturn
             \/ EnsureChecked
             \/ saveProxies
             \/ GetProxiesCall

SpecProxy == InitProxy /\ [][NextProxy]_vars

\* ---- one cycle of main: download, load, completion -----------------------
\* variant: a non-nil result of DownloadFiles ends the process
LoadBegin_FatalOnError ==
  /\ mainPc = "returned" /\ ~crashed
  /\ mainPc' = IF result = "error" THEN "fatal" ELSE "load"
  /\ loadPc' = IF result = "error" THEN loadPc ELSE "group"
  /\ UNCHANGED <<live, backup, temp, group, zipDir, zipFiles, loadErr,
                 liveBefore, moved, pass>>
  /\ UNCHANGED genVars
  /\ UNCHANGED <<files, fs, workingFile, badProxies, failedURLs, errChan, mu,
                 pc, attempt, avail, proxyURL, lastBody, why, outcome, gets,
                 connFailed, pickedBad, result, crashed>>
  /\ UNCHANGED <<faultsLeft, kept>>
  /\ UNCHANGED <<pmVars, ctx>>

\* if err := dl.DownloadFiles(...); err != nil { log.Printf("Warning: ...") }
\* and main goes on with the groups of archives
LoadBegin ==
  /\ mainPc = "returned" /\ ~crashed
  /\ mainPc' = "load"
  /\ loadPc' = "group"
  /\ UNCHANGED <<live, backup, temp, group, zipDir, zipFiles, loadErr,
                 liveBefore, moved, pass>>
  /\ UNCHANGED genVars
  /\ UNCHANGED <<files, fs, workingFile, badProxies, failedURLs, errChan, mu,
                 pc, attempt, avail, proxyURL, lastBody, why, outcome, gets,
                 connFailed, pickedBad, result, crashed>>
  /\ UNCHANGED <<faultsLeft, kept>>
  /\ UNCHANGED <<pmVars, ctx>>

\* without --repeat the loop is left after the load stage:
\* "Processing completed successfully", exit status 0
Completed ==
  /\ mainPc = "load" /\ loadPc = "loaded"
  /\ mainPc' = "exit"
  /\ UNCHANGED genVars
  /\ UNCHANGED <<files, fs, workingFile, badProxies, failedURLs, errChan, mu,
                 pc, attempt, avail, proxyURL, lastBody, why, outcome, gets,
                 connFailed, pickedBad, result, crashed>>
  /\ UNCHANGED <<faultsLeft, kept>>
  /\ UNCHANGED extVars

InitRun ==
  /\ ProxyIdle
  /\ dataType \in {"trades", "depth"}
  /\ skipIfExists = FALSE
  /\ repeatFlag = FALSE
  /\ remote = [r \in Res |-> "found"]
  /\ cycle = 1
  /\ checkedUrls = [r \in Res |-> NoEntry]
  /\ GenIdle
  /\ files \in [Res -> Hints]
  /\ fs = [r \in Res |-> "none"]
  /\ workingFile = [exists |-> TRUE, lines |-> Proxies]
  /\ mainPc = "call"
  /\ Idle
  /\ faultsLeft = MaxRunFaults
  /\ kept = {}
  /\ live = [g \in Groups |-> NoFile]
  /\ backup = [g \in Groups |-> NoFile]
  /\ temp = [g \in Groups |-> NoFile]
  /\ loadPc = "idle"
  /\ group = 1
  /\ zipDir = [g \in Groups |-> IF g = 1 THEN << <<<<1, "a">>>> >> ELSE <<>>]
  /\ zipFiles = <<>>
  /\ loadErr = {}
  /\ liveBefore = live
  /\ moved = {}
  /\ pass = 1

NextRun == \/ DownloadFilesBegin
           \/ \E t \in Res : TaskStep(t)
           \/ MapRaceFatal
           \/ DownloadFilesReturn
           \/ LoadBegin
           \/ GroupBegin
           \/ CopyLive
           \/ NewDB
           \/ ProcessZipFilesBegin
           \/ processSingleZip
           \/ ProcessZipFilesReturn
           \/ Close
           \/ MoveTempDatabase
           \/ Completed

SpecRun == InitRun /\ [][NextRun]_vars

\* the scheduler runs every goroutine and main as long as they can step
FairRun == SpecRun /\ WF_vars(NextRun)

\* ---- DownloadFiles with a context that is cancelled ----------------------
\* the context is cancelled: the calls of downloadWithProxy that are under
\* way are those of the tasks that have selected a proxy
Cancel ==
  /\ mainPc = "wait" /\ ~crashed
  /\ ~ctx.done
  /\ ctx' = [done |-> TRUE, inFlight |-> {t \in Res : pc[t] = "select"}]
  /\ UNCHANGED <<runVars, workingFile, loadVars, pmVars>>

\* what a call of downloadWithProxy meets once the context is cancelled:
\* client.Do fails ("context canceled"); a call that was under way can
\* also have the body cut in io.Copy after os.Create
CancelOutcomes(t) == IF t \in ctx.inFlight THEN {"neterr", "copyerr"}
                     ELSE {"neterr"}

\* an attempt with the cancelled context: the error has neither of the two
\* marks, the retry loop does not look at the context and goes on
AttemptCancelled(t) ==
  /\ pc[t] = "select" /\ ~crashed
  /\ ctx.done
  /\ \E o \in CancelOutcomes(t) :
       /\ fs' = [fs EXCEPT ![t] = FileAfter(o, @)]
       /\ gets' = [gets EXCEPT ![t] =
                     IF t \in ctx.inFlight THEN @ + 1 ELSE @]
  /\ ctx' = [ctx EXCEPT !.inFlight = @ \ {t}]
  /\ avail' = [avail EXCEPT ![t] = {}]
  /\ lastBody' = [lastBody EXCEPT ![t] = "none"]
  /\ pc' = [pc EXCEPT ![t] = NextPc(attempt[t])]
  /\ why' = [why EXCEPT ![t] = NextWhy(attempt[t], @)]
  /\ attempt' = [attempt EXCEPT ![t] = @ + 1]
  /\ UNCHANGED genVars
  /\ UNCHANGED <<files, workingFile, badProxies, failedURLs, errChan, mu,
                 proxyURL, outcome, connFailed, pickedBad, mainPc, result,
                 crashed, faultsLeft, kept>>
  /\ UNCHANGED <<loadVars, pmVars>>

InitCancel ==
  /\ ProxyIdle
  /\ LoadIdle
  /\ dataType = "trades"
  /\ skipIfExists = FALSE
  /\ repeatFlag = FALSE
  /\ remote = [r \in Res |-> "found"]
  /\ cycle = 1
  /\ checkedUrls = [r \in Res |-> NoEntry]
  /\ GenIdle
  /\ files \in [Res -> Hints]
  /\ fs \in [Res -> {"none", "zip"}]
  /\ workingFile = [exists |-> TRUE, lines |-> Proxies]
  /\ mainPc = "call"
  /\ Idle
  /\ faultsLeft = 0
  /\ kept = {r \in Res : fs[r] = "zip"}

\* the network does not fail by itself (faultsLeft = 0): no proxy is
\* marked, and every failure comes from the cancellation
NextCancel == \/ DownloadFilesBegin
              \/ \E t \in Res : \/ SkipCheck(t)
                                 \/ FilterProxies(t)
                                 \/ Attempt(t)
                                 \/ LockAppend(t)
                                 \/ UnlockSend(t)
              \/ DownloadFilesReturn
              \/ Cancel
              \/ \E t \in Res : AttemptCancelled(t)

SpecCancel == InitCancel /\ [][NextCancel]_vars

\* ---- DownloadFiles on resources the origin does not have ----------------
\* downloadWithProxy when the origin answers the GET with 404: the status
\* is not 200, the call returns "unexpected status code ...: 404" before
\* the output file is touched; the text has neither of the two marks, the
\* retry loop sleeps and goes on to its next attempt
AttemptNotFound(t) ==
  /\ pc[t] = "select" /\ ~crashed
  /\ ~ctx.done
  /\ remote[t] = "s404"
  /\ \E p \in avail[t] :
       pickedBad' = (pickedBad \/ p \in badProxies)
  /\ avail' = [avail EXCEPT ![t] = {}]
  /\ gets' = [gets EXCEPT ![t] = @ + 1]
  /\ lastBody' = [lastBody EXCEPT ![t] = "notfound"]
  /\ pc' = [pc EXCEPT ![t] = NextPc(attempt[t])]
  /\ why' = [why EXCEPT ![t] = NextWhy(attempt[t], @)]
  /\ attempt' = [attempt EXCEPT ![t] = @ + 1]
  /\ UNCHANGED genVars
  /\ UNCHANGED <<files, fs, workingFile, badProxies, failedURLs, errChan, mu,
                 proxyURL, outcome, connFailed, mainPc, result, crashed,
                 faultsLeft, kept>>
  /\ UNCHANGED extVars

\* downloadWithProxy for a resource the origin has
AttemptFound(t) ==
  /\ remote[t] = "found"
  /\ Attempt(t)

\* a list that holds resources the origin has and resources it has lost
\* since they were listed
InitNotFound ==
  /\ ProxyIdle
  /\ LoadIdle
  /\ dataType \in {"trades", "depth"}
  /\ skipIfExists = FALSE
  /\ repeatFlag = FALSE
  /\ remote \in [Res -> {"found", "s404"}]
  /\ cycle = 1
  /\ checkedUrls = [r \in Res |-> NoEntry]
  /\ GenIdle
  /\ files \in [Res -> Hints]
  /\ fs \in [Res -> {"none", "zip"}]
  /\ workingFile \in {w \in WorkingFiles : w.exists /\ w.lines # {}}
  /\ mainPc = "call"
  /\ Idle
  /\ faultsLeft = 0
  /\ kept = {r \in Res : fs[r] = "zip"}

NextNotFound == \/ DownloadFilesBegin
                \/ \E t \in Res : \/ SkipCheck(t)
                                   \/ FilterProxies(t)
                                   \/ AttemptFound(t)
                                   \/ AttemptNotFound(t)
                                   \/ LockAppend(t)
                                   \/ UnlockSend(t)
                \/ DownloadFilesReturn

SpecNotFound == InitNotFound /\ [][NextNotFound]_vars

\* ---- main with --recheck-exists -----------------------------------------
\* recheckExistingArchives: the walk over the data directory collects the
\* archives of a size above zero that CheckZipFile rejects; no file is
\* touched.  main returns when none is broken
recheckExistingArchives ==
  /\ mainPc = "recheck"
  /\ LET brokenArchives == {r \in Res : fs[r] # "none" /\ ~CheckZipFile(fs[r])}
     IN /\ files' = [r \in brokenArchives |-> 0]
        /\ mainPc' = IF brokenArchives = {} THEN "exit" ELSE "broken"
  /\ UNCHANGED genVars
  /\ UNCHANGED <<fs, workingFile, badProxies, failedURLs, errChan, mu, pc,
                 attempt, avail, proxyURL, lastBody, why, outcome, gets,
                 connFailed, pickedBad, result, crashed, faultsLeft, kept>>
  /\ UNCHANGED extVars

\* redownloadBrokenArchives up to its call of DownloadFiles: log.Fatalf
\* without proxies, else one FileInfo{URL, ContentLength: 0} per broken
\* archive; the archives stay where they are
redownloadBrokenArchives ==
  /\ mainPc = "broken"
  /\ mainPc' = IF GetProxiesErr \/ GetProxies = {} THEN "fatal" ELSE "call"
  /\ UNCHANGED genVars
  /\ UNCHANGED <<files, fs, workingFile, badProxies, failedURLs, errChan, mu,
                 pc, attempt, avail, proxyURL, lastBody, why, outcome, gets,
                 connFailed, pickedBad, result, crashed, faultsLeft, kept>>
  /\ UNCHANGED extVars

\* DownloadFiles has returned: its error is logged as a warning,
\* redownloadBrokenArchives returns and main returns
RecheckReturn ==
  /\ mainPc = "returned" /\ ~crashed
  /\ mainPc' = "exit"
  /\ UNCHANGED genVars
  /\ UNCHANGED <<files, fs, workingFile, badProxies, failedURLs, errChan, mu,
                 pc, attempt, avail, proxyURL, lastBody, why, outcome, gets,
                 connFailed, pickedBad, result, crashed, faultsLeft, kept>>
  /\ UNCHANGED extVars

InitRecheck ==
  /\ ProxyIdle
  /\ LoadIdle
  /\ dataType \in {"trades", "depth"}
  /\ skipIfExists = FALSE
  /\ repeatFlag = FALSE
  /\ remote = [r \in Res |-> "found"]
  /\ cycle = 1
  /\ checkedUrls = [r \in Res |-> NoEntry]
  /\ GenIdle
  /\ files = NoURLs
  /\ fs \in [Res -> {"none", "empty", "corrupt", "zip"}]
  /\ workingFile \in WorkingFiles
  /\ mainPc = "recheck"
  /\ Idle
  /\ faultsLeft = MaxRunFaults
  /\ kept = {r \in Res : fs[r] = "zip"}

NextRecheck == \/ recheckExistingArchives
               \/ redownloadBrokenArchives
               \/ DownloadFilesBegin
               \/ \E t \in Res : TaskStep(t)
               \/ MapRaceFatal
               \/ DownloadFilesReturn
               \/ RecheckReturn

SpecRecheck == InitRecheck /\ [][NextRecheck]_vars

\* ======================= claims ==========================================

\* C1: a resource whose task ended as success (it returned from its retry
\* loop, not appended to the failed list, no error sent) has at its output
\* path a well-formed archive, or for depth an empty placeholder.
C1_SuccessHasArchive ==
  \A t \in Res : outcome[t] = "fetched" =>
     \/ fs[t] = "zip"
     \/ dataType = "depth" /\ fs[t] = "empty"

\* C2: after a failed attempt of downloadWithProxy (the resource's last
\* attempt did not end the task as fetched) no partially written file is at
\* the resource's output path.
C2_NoPartialAfterFailure ==
  \A t \in Res : gets[t] > 0 /\ outcome[t] # "fetched" => fs[t] # "partial"

\* C3: DownloadFiles returns a non-nil error if and only if some listed
\* resource was neither skipped as present nor fetched and validated.
C3_ErrorIffUnretrieved ==
  mainPc = "returned" =>
     (result = "error" <=>
        \E t \in Listed : outcome[t] \notin {"skipped", "fetched"})

\* C4: with skipIfExists, in a cycle after the first, no GET request is
\* issued for a resource whose archive was on disk when the cycle began.
C4_ResumeNoDownloads ==
  cycle > 1 /\ skipIfExists => \A r \in kept : gets[r] = 0

C6_CorruptRejected ==
  \A t \in Res : lastBody[t] \in {"garbage", "emptybody"} =>
     fs[t] = "none" /\ outcome[t] # "fetched"

\* C7: a task that reads or writes the bad-proxy set holds the mutex, and
\* no task writes the set while another task reads or writes it.
C7_BadProxiesUnderLock ==
  /\ \A t \in Res : Reads(t) \/ Writes(t) => mu = t
  /\ ~MapRace

\* C8: a proxy an attempt selects is in the working set and not in the
\* bad-proxy set at the moment of the selection.
C8_SelectionAvoidsBad ==
  /\ ~pickedBad
  /\ \A t \in Res : avail[t] \subseteq GetProxies

\* C9: every proxy of the bad-proxy set had an attempt through it fail on
\* connection level (refused or timed out) in this call; while the call
\* runs no proxy leaves the set; the set is empty when a call begins.
C9_BadOnlyAfterConnFailure ==
  /\ [](badProxies \subseteq connFailed)
  /\ [][/\ mainPc = "wait" => badProxies \subseteq badProxies'
        /\ mainPc = "call" /\ mainPc' = "wait" => badProxies' = {}]_vars

\* C9, reached: in a later call a proxy is marked bad again.
C9_Witness ==
  cycle > 1 /\ mainPc = "wait" /\ badProxies # {} /\ faultsLeft = 0

\* C10: a task that found every working proxy marked bad issues no further
\* GET request, appends its resource to the failed list exactly once, and
\* ends as failed.
C10_AllBadFailsOnce ==
  /\ [](\A t \in Res : why[t] = "allbad" =>
          /\ pc[t] \in {"lock", "unlock", "done"}
          /\ failedURLs[t] = (IF pc[t] = "lock" THEN 0 ELSE 1)
          /\ pc[t] = "done" => outcome[t] = "allbad")
  /\ [][\A t \in Res : why[t] = "allbad" => gets'[t] = gets[t]]_vars

\* C10, reached: the call has returned and a resource whose task found all
\* proxies bad is in the failed list once.
C10_Witness ==
  /\ mainPc = "returned"
  /\ \E t \in Listed : outcome[t] = "allbad" /\ failedURLs[t] = 1

\* C11: at most maxRetries (5) GET requests are made for a resource; after
\* the attempt that succeeded none follows; a task whose maxRetries attempts
\* all failed goes on to the append and its resource is in the failed list
\* when it has ended.
C11_AtMostFiveAttempts ==
  /\ [](\A t \in Res :
          /\ gets[t] <= maxRetries
          /\ attempt[t] <= maxRetries + 1
          /\ attempt[t] = maxRetries + 1 =>
               /\ pc[t] \in {"lock", "unlock", "done"}
               /\ why[t] = "exhausted"
               /\ pc[t] = "done" => outcome[t] = "exhausted" /\ failedURLs[t] = 1)
  /\ [][\A t \in Res : outcome[t] = "fetched" =>
          gets'[t] = gets[t] /\ outcome'[t] = "fetched"]_vars

\* C11, reached: a resource is in the failed list after five failed GETs.
C11_Witness ==
  \E t \in Listed : /\ outcome[t] = "exhausted" /\ gets[t] = maxRetries
                    /\ failedURLs[t] = 1 /\ mainPc = "returned"

C13_ProbeClassification ==
  \A r \in Res :
     /\ probePc[r] = "done"
     /\ probed[r].via \in {"head", "cache"}
     /\ ~probed[r].err
     => /\ probed[r].status \in 200..399 =>
             /\ r \in DOMAIN urls
             /\ urls[r] = IF Answer(remote[r]).len > 0
                          THEN Answer(remote[r]).len ELSE 0
        /\ probed[r].status >= 400 =>
             /\ r \notin DOMAIN urls
             /\ probed[r].heads <= 1
             /\ dataType = "trades" => stopBatch

\* C14: a probe whose request failed on network level has issued 3
\* requests before it returns the error, and the error is not taken for
\* an absent resource: the resource is not listed and the probe did not
\* stop the batch.
C14_ProbeRetriesThrice ==
  \A r \in Res :
     probePc[r] = "done" /\ probed[r].err /\ probed[r].via = "head"
     => /\ probed[r].heads = 3
        /\ r \notin DOMAIN urls
        /\ probed[r].status = 0

C16_MinimumExistingPrefix ==
  GenerateURLsDone /\ dataType = "trades" =>
    \A q \in Res :
       /\ probed[q].via \in {"head", "cache"}
       /\ ~probed[q].err
       /\ probed[q].status >= 400
       => \A r \in DOMAIN urls : r < q

C18_ResultIndependentOfOrder ==
  /\ [](/\ GenerateURLsDone =>
             /\ DOMAIN urls =
                  {r \in Res : \/ probed[r].via = "local"
                               \/ /\ probed[r].via \in {"head", "cache"}
                                  /\ ~probed[r].err
                                  /\ probed[r].status = 200}
             /\ \A r \in DOMAIN urls :
                  urls[r] = IF probed[r].via = "local" THEN 0
                            ELSE probed[r].len
        /\ \A r, q \in Res :
             probePc[r] = "commit" /\ probePc[q] = "commit" => r = q
        /\ \A r \in Res : probePc[r] = "commit" => mu = r)
  /\ [][mainPc = "probing" /\ mainPc' = "probing" /\ urls' # urls =>
          \E r \in Res \ DOMAIN urls :
             /\ mu = r /\ probePc[r] = "commit"
             /\ DOMAIN urls' = DOMAIN urls \cup {r}
             /\ \A q \in DOMAIN urls : urls'[q] = urls[q]]_vars

\* C18, reached: both resources were found, one by a request and one by
\* its local file, and the call is about to return.
C18_Witness ==
  /\ GenerateURLsDone
  /\ DOMAIN urls = Res
  /\ probed[1].via = "head" /\ probed[2].via = "local"

\* C19: in repeat mode for depth, a cycle at whose start every resource
\* that exists upstream had its archive at its local path enumerates no
\* resource; the loop starts another cycle only after a cycle that had a
\* resource left to fetch, and it is left after a cycle that enumerated
\* nothing.
C19_CyclesOnlyWhileNeeded ==
  /\ [](/\ dataType = "depth" /\ repeatFlag
        /\ mainPc \in {"call", "wait", "returned"}
        /\ \A r \in Res : remote[r] = "found" => r \in kept
        => DOMAIN files = {})
  /\ [][dataType = "depth" /\ cycle' > cycle =>
          \E r \in Res : remote[r] = "found" /\ r \notin kept]_vars
  /\ [][dataType = "depth" /\ mainPc = "returned" /\ DOMAIN files = {} =>
          mainPc' \in {"returned", "exit"}]_vars

\* C20 as claimed: for trades the cycle runs once whatever the flags are.
C20_TradesOnePass == dataType = "trades" => cycle = 1

\* C20, amended: for either data kind the cycle runs again only when both
\* --repeat and --skip-exists are given and the cycle before enumerated at
\* least one resource; otherwise the loop is left after one cycle.
C20_OnePassUnlessRepeat ==
  /\ [](cycle > 1 => repeatFlag /\ skipIfExists)
  /\ [](mainPc = "exit" /\ ~(repeatFlag /\ skipIfExists) => cycle = 1)
  /\ [][cycle' # cycle =>
          /\ cycle' = cycle + 1
          /\ repeatFlag /\ skipIfExists /\ DOMAIN files # {}]_vars

\* C20, reached: with both flags a trades run has ended the download of
\* its second cycle.
C20_Witness ==
  dataType = "trades" /\ cycle > 1 /\ mainPc = "returned" /\ Listed # {}

\* C21: loading a trade archive again leaves the rows as they are after
\* loading it once, and at every point no two rows of the trades table
\* have the same trade_id.
C21_TradeImportIdempotent ==
  /\ [](dataType = "trades" =>
          \A g \in Groups : \A r \in Rows :
             /\ temp[g].tbl[r] <= 1
             /\ \A q \in Rows : temp[g].tbl[r] > 0 /\ temp[g].tbl[q] > 0
                                  /\ q[1] = r[1] => q = r)
  /\ [][dataType = "trades" /\ loadPc = "zips" /\ temp' # temp =>
          processTradesCSV(temp'[group].tbl, Head(zipFiles))
             = temp'[group].tbl]_vars

\* C21 witness: the second pass over a trades database has loaded again
\* the archives of the first pass, among them one whose two records have
\* the same trade_id, and the table holds the row
C21_Witness ==
  /\ dataType = "trades" /\ pass = 2 /\ loadPc = "close" /\ loadErr = {}
  /\ Len(zipDir[group]) = 2
  /\ \E i \in 1..2 : /\ Len(zipDir[group][i]) = 2
                     /\ zipDir[group][i][1][1] = zipDir[group][i][2][1]
                     /\ zipDir[group][i][1] # zipDir[group][i][2]
                     /\ temp[group].tbl[zipDir[group][i][1]] = 1

\* C22: at every point no two rows of a depth market table have the same
\* timestamp (loading a depth archive again adds no row).
C22_DepthNoSharedTimestamp ==
  dataType = "depth" =>
     \A g \in Groups : \A r \in Rows :
        /\ temp[g].tbl[r] <= 1
        /\ \A q \in Rows : temp[g].tbl[r] > 0 /\ temp[g].tbl[q] > 0
                             /\ q[1] = r[1] => q = r

C24_LiveNeverHalfWritten ==
  \A g \in Groups :
     /\ live[g].exists => live[g].whole
     /\ ~live[g].exists /\ liveBefore[g].exists => backup[g] = liveBefore[g]

\* C25: MoveTempDatabase is not called for a group whose ProcessZipFiles
\* or Close returned an error.
C25_MoveOnlyAfterCleanClose ==
  [][loadPc = "move" /\ loadPc' \in {"mvopen", "fatal"}
       => loadErr \cap {"process", "close"} = {}]_vars

\* C26: when the swap of one group has failed, the groups after it that
\* have archives are loaded and swapped all the same.
C26_SwapFailureGroupOnly ==
  ~(/\ loadPc = "fatal"
    /\ \E g \in Groups : g > group /\ zipDir[g] # <<>> /\ g \notin moved)

\* C27: trades: every row of the live database before the pass is in the
\* live database after the group was loaded and swapped.
C27_TradesRowsKept ==
  dataType = "trades" =>
     \A g \in moved : liveBefore[g].exists =>
        \A r \in Rows : liveBefore[g].tbl[r] <= live[g].tbl[r]

\* C27 witness: a trades group whose live database had a row was loaded
\* and swapped, and the live database has that row and a new one
C27_Witness ==
  /\ dataType = "trades"
  /\ \E g \in moved :
        /\ liveBefore[g].exists
        /\ \E r, q \in Rows : /\ r # q
                              /\ liveBefore[g].tbl[r] = 1
                              /\ liveBefore[g].tbl[q] = 0
                              /\ live[g].tbl[r] = 1
                              /\ live[g].tbl[q] = 1

\* C28: the working set that checkProxies returns is exactly the set of
\* the candidates whose echo request answered with their own host.
C28_WorkingSetExact ==
  pmPc = "checked" =>
     Range(pmWorking) = {p \in rawFile.lines : echo[p] = "own"}

\* C29: EnsureProxies returns an error when the raw list is empty and when
\* no candidate survived, and the working-set file is written only by
\* saveProxies with a surviving set that is not empty.
C29_EnsureProxiesErrors ==
  /\ [](pmPc \in {"returned", "got"} /\ rawFile.lines = {}
          => pmErr \in {"download", "load", "empty"})
  /\ [](pmPc \in {"returned", "got"} /\ pmWorking = <<>>
          => pmErr \in {"download", "load", "empty", "noworking"})
  /\ [](pmPc \in {"returned", "got"} /\ pmErr = "nil"
          => /\ pmWorking # <<>>
             /\ workingFile = [exists |-> TRUE, lines |-> Range(pmWorking)])
  /\ [][workingFile' # workingFile
          => pmPc = "save" /\ pmWorking # <<>>]_vars

\* C29 witness: no candidate survived, EnsureProxies has returned "no
\* working proxies found" and the working-set file of an earlier run is
\* there as it was
C29_Witness ==
  /\ pmPc = "returned" /\ pmErr = "noworking"
  /\ rawFile.lines = Proxies
  /\ \A p \in Proxies : chkPc[p] = "done" /\ echo[p] # "own"
  /\ workingFile.exists /\ workingFile.lines # {}

C31_PlaceholderNotRetried ==
  dataType = "depth" =>
     \A r \in Res : checkedUrls[r].status \in {403, 404} => gets[r] = 0

C33_CancelLeavesNoPartial ==
  /\ [][ctx.done => \A t \in Res : outcome'[t] = "fetched"
                                      => outcome[t] = "fetched"]_vars
  /\ [](ctx.done /\ mainPc = "returned"
          => \A t \in Res : fs[t] # "partial")

\* C34: a not-found response to a download request is terminal and is not
\* an error: the task that received it is finished, the resource is not
\* requested again through another proxy and is not in the failed list.
C34_NotFoundTerminal ==
  \A t \in Res : lastBody[t] = "notfound" =>
     /\ pc[t] = "done"
     /\ gets[t] = 1
     /\ failedURLs[t] = 0

\* C35: a resource whose probe reported it absent in a pass is not in the
\* list GenerateURLs builds, and a download request is made only for a
\* resource that a probe reported existing (status 200, kept in
\* checked_urls).
C35_DownloadOnlyProbedExisting ==
  \A r \in Res :
     /\ (/\ mainPc = "probing"
         /\ probed[r].via \in {"cache", "head"}
         /\ ~probed[r].err
         /\ probed[r].status # 200) => r \notin DOMAIN urls
     /\ gets[r] > 0 => checkedUrls[r].status = 200

\* C36: a corrupt archive found by the recheck pass is removed from its
\* local path: when the run with --recheck-exists has ended, no corrupt
\* archive is left for the next run to find.
C36_CorruptArchiveRemoved ==
  mainPc = "exit" => \A r \in Res : fs[r] # "corrupt"

C38_ErrorProbeGoesOn ==
  /\ [][dataType = "trades" =>
          /\ \A r \in Res :
               (probed'[r] # probed[r] /\ probed'[r].err) =>
                  /\ urls' = urls
                  /\ stopBatch' = stopBatch
                  /\ probePc'[r] = "done"
          /\ (tail = "pending" /\ tail' = "error") =>
                urls' = urls /\ stopBatch' = stopBatch
          /\ (mainPc = "probing" /\ mainPc' # "probing") =>
                stopBatch \/ startNum + BatchSize > LastNum
          /\ (mainPc = "probing" /\ mainPc' = "probing"
                                 /\ startNum' # startNum) =>
                startNum' = startNum + BatchSize]_vars
  /\ [](/\ \A r \in Res : (mainPc = "probing" /\ probed[r].err)
                              => r \notin DOMAIN urls
        /\ startNum \in 1..LastNum
        /\ (startNum - 1) % BatchSize = 0
        /\ (startNum - 1) \div BatchSize + 1 <= 100)

\* C38 witness: the enumeration of trades has reached its last batch, the
\* 100th, with no end-of-sequence signal, although the probe of a resource
\* ended in an error and the resource was left out.
C38_Witness ==
  /\ dataType = "trades" /\ mainPc = "probing"
  /\ (startNum - 1) \div BatchSize + 1 = 100
  /\ tail = "error" /\ ~stopBatch
  /\ \E r \in Res : probed[r].err /\ r \notin DOMAIN urls

C40_NoLeftoverRawFile ==
  (pmPc = "returned" /\ pmErr = "download") => ~rawFile.exists

====
